---- MODULE Spec2Model ----
(***************************************************************************)
(* Model of the Power BI translation audit server                          *)
(* (src/mcp-translation-audit/server.py).                                  *)
(*                                                                         *)
(* Strings are sequences of one-character strings, so that strip, lower,   *)
(* startswith, substring search and the \b\w+\b tokenizer are computed as  *)
(* the code computes them.  A JSON key that is absent is the marker        *)
(* Absent.  A visual.json file is a record of the fields the scanners      *)
(* navigate to, plus the outcome of open()/json.load() on it.              *)
(***************************************************************************)
EXTENDS Integers, Sequences, FiniteSets, TLC

VARIABLES
    files,      \* the visual.json files under the directory "pages", in path order
    pc,         \* main(): "running" while the loop reads, "stopped" after a break
    inlog,      \* the requests read so far: <<method, id>>
    outbox,     \* the ids of the responses written to stdout, in order
    stderr,     \* the lines main() printed to stderr
    last,       \* the request read last and the response sent for it (or NoResponse)
    call,       \* the tool run last on its own: name, pages_dir, findings, outcome
    prior,      \* the tool run before that one, on the same directory tree
    text,       \* classifier development: the input string
    phase,      \* classifier development: "input", "classified" or "scanned"
    verdict,    \* classifier development: is_suspected_english(text)
    results     \* classifier development: scan_visual_json of a title-only document

vars == <<files, pc, inlog, outbox, stderr, last, call, prior, text, phase, verdict, results>>

(***************************************************************************)
(* Bounds                                                                  *)
(***************************************************************************)
MaxFiles == 2
MaxRequests == 2
MaxFrags == 3

(***************************************************************************)
(* Characters and strings                                                  *)
(***************************************************************************)
Absent == <<"<absent>">>

UpperChars ==
    <<"A", "B", "C", "D", "E", "F", "G", "H", "I", "J", "K", "L", "M", "N",
      "O", "P", "Q", "R", "S", "T", "U", "V", "W", "X", "Y", "Z", "Å", "Ä", "Ö">>
LowerChars ==
    <<"a", "b", "c", "d", "e", "f", "g", "h", "i", "j", "k", "l", "m", "n",
      "o", "p", "q", "r", "s", "t", "u", "v", "w", "x", "y", "z", "å", "ä", "ö">>
DigitChars == {"0", "1", "2", "3", "4", "5", "6", "7", "8", "9"}
Whitespace == {" ", "\t", "\n", "\r"}
QuoteChars == {"'", "\""}

Range(s) == {s[i] : i \in 1..Len(s)}

\* str.lower() on one character
LowerChar(c) ==
    IF \E i \in 1..Len(UpperChars) : UpperChars[i] = c
    THEN LowerChars[CHOOSE i \in 1..Len(UpperChars) : UpperChars[i] = c]
    ELSE c

\* str.lower()
Lower(s) == [i \in 1..Len(s) |-> LowerChar(s[i])]

\* \w of the re module on str patterns: letters, digits and the underscore
IsWordChar(c) ==
    \/ c \in Range(UpperChars)
    \/ c \in Range(LowerChars)
    \/ c \in DigitChars
    \/ c = "_"

RECURSIVE LStrip(_, _)
LStrip(s, cs) ==
    IF s # <<>> /\ Head(s) \in cs THEN LStrip(Tail(s), cs) ELSE s

RECURSIVE RStrip(_, _)
RStrip(s, cs) ==
    IF s # <<>> /\ s[Len(s)] \in cs THEN RStrip(SubSeq(s, 1, Len(s) - 1), cs) ELSE s

\* str.strip(chars): every leading and every trailing character of cs goes
Strip(s, cs) == RStrip(LStrip(s, cs), cs)

\* str.isdigit()
IsDigit(s) == s # <<>> /\ \A i \in 1..Len(s) : s[i] \in DigitChars

\* str.startswith(p)
StartsWith(s, p) == Len(s) >= Len(p) /\ SubSeq(s, 1, Len(p)) = p

\* p in s
Contains(s, p) ==
    \E i \in 1..(Len(s) - Len(p) + 1) : SubSeq(s, i, i + Len(p) - 1) = p

\* re.findall(r'\b\w+\b', s): the maximal runs of word characters, in order
RECURSIVE FindWords(_, _, _)
FindWords(s, cur, acc) ==
    IF s = <<>>
    THEN IF cur = <<>> THEN acc ELSE Append(acc, cur)
    ELSE IF IsWordChar(Head(s))
         THEN FindWords(Tail(s), Append(cur, Head(s)), acc)
         ELSE FindWords(Tail(s), <<>>, IF cur = <<>> THEN acc ELSE Append(acc, cur))

\* the one element of a singleton: Only({F(x) : x \in {e}}) is F(e) with e evaluated once
Only(S) == CHOOSE x \in S : TRUE

\* bool(x) of an optional string: None and "" are falsy
Truthy(x) == x # Absent /\ x # <<>>

(***************************************************************************)
(* Lookup tables                                                           *)
(***************************************************************************)
ENGLISH_KEYWORDS ==
    { <<"y", "e", "a", "r">>,
      <<"m", "o", "n", "t", "h">>,
      <<"q", "u", "a", "r", "t", "e", "r">>,
      <<"w", "e", "e", "k">>,
      <<"d", "a", "t", "e">>,
      <<"a", "m", "o", "u", "n", "t">>,
      <<"c", "o", "s", "t">>,
      <<"n", "a", "m", "e">>,
      <<"g", "r", "o", "u", "p">>,
      <<"t", "y", "p", "e">>,
      <<"n", "u", "m", "b", "e", "r">>,
      <<"t", "o", "t", "a", "l">>,
      <<"i", "n", "v", "o", "i", "c", "e">>,
      <<"c", "u", "s", "t", "o", "m", "e", "r">>,
      <<"c", "o", "u", "n", "t", "e", "r">>,
      <<"a", "c", "c", "o", "u", "n", "t">>,
      <<"v", "o", "u", "c", "h", "e", "r">>,
      <<"d", "e", "s", "c", "r", "i", "p", "t", "i", "o", "n">>,
      <<"p", "a", "y", "m", "e", "n", "t">>,
      <<"c", "o", "m", "m", "e", "n", "t">>,
      <<"d", "i", "s", "p", "l", "a", "y">>,
      <<"h", "e", "a", "d", "e", "r">>,
      <<"r", "e", "s", "u", "l", "t">>,
      <<"r", "e", "p", "o", "r", "t">>,
      <<"c", "o", "m", "p", "a", "r", "i", "s", "o", "n">>,
      <<"f", "o", "r", "e", "c", "a", "s", "t">>,
      <<"b", "u", "d", "g", "e", "t">>,
      <<"a", "c", "t", "u", "a", "l">>,
      <<"t", "r", "e", "n", "d">>,
      <<"r", "e", "v", "e", "n", "u", "e">>,
      <<"o", "p", "e", "n", "i", "n", "g">>,
      <<"c", "h", "o", "s", "e", "n">>,
      <<"h", "i", "s", "t", "o", "r", "y">>,
      <<"c", "h", "u", "r", "n">>,
      <<"s", "h", "e", "e", "t">>,
      <<"l", "e", "g", "a", "l">>,
      <<"e", "n", "t", "i", "t", "y">>,
      <<"c", "o", "m", "p", "a", "n", "y">>,
      <<"p", "r", "o", "j", "e", "c", "t">>,
      <<"a", "r", "t", "i", "c", "l", "e">>,
      <<"o", "v", "e", "r", "d", "u", "e">>,
      <<"p", "r", "o", "p", "e", "r", "t", "y">>,
      <<"c", "o", "l", "u", "m", "n">>,
      <<"f", "u", "l", "l">>,
      <<"c", "o", "u", "n", "t">>,
      <<"r", "a", "t", "i", "o">>,
      <<"p", "r", "o", "f", "i", "t">>,
      <<"b", "a", "l", "a", "n", "c", "e">>,
      <<"i", "n", "v", "o", "i", "c", "e", "d">>,
      <<"d", "e", "v", "e", "l", "o", "p", "m", "e", "n", "t">>,
      <<"o", "v", "e", "r", "v", "i", "e", "w">>,
      <<"f", "i", "n", "a", "n", "c", "i", "a", "l">>,
      <<"l", "e", "d", "g", "e", "r">>,
      <<"a", "c", "t", "u", "a", "l", "s">>,
      <<"a", "c", "c", "u", "m", "u", "l", "a", "t", "e", "d">>,
      <<"s", "e", "l", "e", "c", "t", "e", "d">>,
      <<"p", "r", "e", "v", "i", "o", "u", "s">> }

SWEDISH_CHARS == {"å", "ä", "ö", "Å", "Ä", "Ö"}

NEUTRAL_ABBR ==
    { <<"F", "C">>,
      <<"B", "U">>,
      <<"A", "C", "T">>,
      <<"P", "Y">>,
      <<"V", "T", "B", "%">>,
      <<"V", "T", "C">>,
      <<"V", "T", "C", "%">>,
      <<"V", "a", "r", "%">>,
      <<"Y", "o", "Y">>,
      <<"V", "T", "F">>,
      <<"V", "T", "F", " ", "%">>,
      <<"F", "C", "/", "B", "U">>,
      <<"D", "y", "n", "V", "T", "C">>,
      <<"D", "y", "n", "V", "T", "C", "%">>,
      <<"R", "1", "2", "M">>,
      <<"Y", "T", "D">>,
      <<"F", "Y", "T", "D">>,
      <<"R", "3", "M">>,
      <<"L", "1", "2", "M">>,
      <<"S", "K">>,
      <<"V", "A", "T">>,
      <<"N", "/", "A">>,
      <<"S", "E", "K">>,
      <<"p", "p">> }

SkipKeywords ==
    { <<"t", "r", "u", "e">>,
      <<"f", "a", "l", "s", "e">>,
      <<"c", "e", "n", "t", "e", "r">>,
      <<"l", "e", "f", "t">>,
      <<"r", "i", "g", "h", "t">>,
      <<"t", "o", "p">>,
      <<"b", "o", "t", "t", "o", "m">> }

InternalNames ==
    { <<"C", "o", "l", "o", "r", " ">>,
      <<"V", "A", "R", " ">>,
      <<"F", "o", "n", "t", "C", "o", "l", "o", "r", "C", "o", "d", "e">>,
      <<"B", "a", "c", "k", "g", "r", "o", "u", "n", "d", "C", "o", "l", "o", "r", "C", "o", "d", "e">>,
      <<"I", "s", "I", "n", "S", "c", "o", "p", "e">>,
      <<"E", "n", "a", "b", "l", "e", "E", "x", "p", "a", "n", "s", "i", "o", "n">> }

(***************************************************************************)
(* Classifier                                                              *)
(***************************************************************************)
\* text.strip().strip("'\"")
TextStripped(t) == Strip(Strip(t, Whitespace), QuoteChars)

\* KeywordMatch with a phrase needing two dictionary words
KeywordMatchTwoNeeded(words) ==
    LET english_word_count == Cardinality({i \in 1..Len(words) : words[i] \in ENGLISH_KEYWORDS})
    IN  \/ Len(words) >= 2 /\ english_word_count >= 2
        \/ Len(words) = 1 /\ words[1] \in ENGLISH_KEYWORDS

\* the keyword test on the word list
KeywordMatch(words) ==
    LET english_word_count == Cardinality({i \in 1..Len(words) : words[i] \in ENGLISH_KEYWORDS})
    IN  \/ Len(words) >= 2 /\ english_word_count >= 1
        \/ Len(words) = 1 /\ words[1] \in ENGLISH_KEYWORDS

\* the rules applied to text_stripped, the first that matches deciding
ClassifyStripped(text_stripped) ==
    IF Len(text_stripped) < 2 \/ IsDigit(text_stripped) THEN FALSE
    ELSE IF text_stripped \in NEUTRAL_ABBR THEN FALSE
    ELSE IF Lower(text_stripped) \in SkipKeywords THEN FALSE
    ELSE IF StartsWith(text_stripped, <<"#">>) \/ StartsWith(text_stripped, <<"r", "g", "b">>)
         THEN FALSE
    ELSE IF \E x \in InternalNames : Contains(text_stripped, x) THEN FALSE
    ELSE IF \E i \in 1..Len(text_stripped) : text_stripped[i] \in SWEDISH_CHARS THEN FALSE
    ELSE \E words \in {FindWords(Lower(text_stripped), <<>>, <<>>)} : KeywordMatch(words)

is_suspected_english(t) ==
    IF ~Truthy(t) THEN FALSE
    ELSE \E text_stripped \in {TextStripped(t)} : ClassifyStripped(text_stripped)

(***************************************************************************)
(* Documents                                                               *)
(*                                                                         *)
(* kind is what open()/json.load() does on the file: "ok" parses,          *)
(* "malformed" raises JSONDecodeError, "undecodable" UnicodeDecodeError,   *)
(* "missing" FileNotFoundError (the file went away after glob listed it),  *)
(* "unreadable" PermissionError.  title and subTitle hold, per object, the *)
(* literal Value reached by the .get chain (Absent when a step is          *)
(* missing); queryState holds the buckets that are dicts with a            *)
(* "projections" list; paragraphs holds, per paragraph, the values of its  *)
(* text runs.                                                              *)
(***************************************************************************)
Doc(k, t, st, qs, vt, ps) ==
    [kind |-> k, title |-> t, subTitle |-> st, queryState |-> qs,
     visualType |-> vt, paragraphs |-> ps]

Proj(nqr, dn) == [nativeQueryRef |-> nqr, displayName |-> dn]

EmptyResults ==
    [title_text |-> <<>>, displayname_text |-> <<>>,
     textbox_text |-> <<>>, missing_displayname |-> <<>>]

Returned(v) == [raised |-> FALSE, exc |-> "", value |-> v]
Raised(e) == [raised |-> TRUE, exc |-> e, value |-> <<>>]

\* the except clause of scan_visual_json and scan_missing_displaynames_only
CaughtKinds == {"malformed", "undecodable", "missing"}

RECURSIVE Concat(_)
Concat(ss) == IF ss = <<>> THEN <<>> ELSE Head(ss) \o Concat(Tail(ss))

\* CleanText taking one quote character off each end
CleanTextOneLayer(text_expr) ==
    LET a == IF text_expr # <<>> /\ Head(text_expr) \in QuoteChars THEN Tail(text_expr) ELSE text_expr
    IN  IF a # <<>> /\ a[Len(a)] \in QuoteChars THEN SubSeq(a, 1, Len(a) - 1) ELSE a

\* text_expr.strip("'")
CleanText(text_expr) == Strip(text_expr, {"'"})

\* the loop over vco.get("title", []) or vco.get("subTitle", [])
RECURSIVE TitleTexts(_)
TitleTexts(vals) ==
    IF vals = <<>> THEN <<>>
    ELSE LET text_expr == Head(vals)
             clean_text == CleanText(text_expr)
         IN  IF Truthy(text_expr) /\ is_suspected_english(clean_text)
             THEN <<clean_text>> \o TitleTexts(Tail(vals))
             ELSE TitleTexts(Tail(vals))

\* for bucket in query_state.values(): for proj in bucket["projections"]
Projections(doc) == Concat(doc.queryState)

\* MissingBranch gated on the displayName key being absent
MissingBranchKeyGated(proj) == Truthy(proj.nativeQueryRef) /\ proj.displayName = Absent

\* if nqr and not dn
MissingBranch(proj) == Truthy(proj.nativeQueryRef) /\ ~Truthy(proj.displayName)

\* elif dn
DisplayBranch(proj) == ~MissingBranch(proj) /\ Truthy(proj.displayName)

RECURSIVE MissingTexts(_)
MissingTexts(projs) ==
    IF projs = <<>> THEN <<>>
    ELSE LET proj == Head(projs) IN
         IF MissingBranch(proj) /\ is_suspected_english(proj.nativeQueryRef)
         THEN <<proj.nativeQueryRef>> \o MissingTexts(Tail(projs))
         ELSE MissingTexts(Tail(projs))

RECURSIVE DisplayTexts(_)
DisplayTexts(projs) ==
    IF projs = <<>> THEN <<>>
    ELSE LET proj == Head(projs) IN
         IF DisplayBranch(proj) /\ is_suspected_english(proj.displayName)
         THEN <<proj.displayName>> \o DisplayTexts(Tail(projs))
         ELSE DisplayTexts(Tail(projs))

RECURSIVE RunTexts(_)
RunTexts(runs) ==
    IF runs = <<>> THEN <<>>
    ELSE LET text_val == Head(runs) IN
         IF Truthy(text_val) /\ is_suspected_english(text_val)
         THEN <<text_val>> \o RunTexts(Tail(runs))
         ELSE RunTexts(Tail(runs))

TextboxType == <<"t", "e", "x", "t", "b", "o", "x">>

TextboxTexts(doc) ==
    IF doc.visualType = TextboxType THEN RunTexts(Concat(doc.paragraphs)) ELSE <<>>

scan_visual_json(doc) ==
    IF doc.kind \in CaughtKinds THEN Returned(EmptyResults)
    ELSE IF doc.kind # "ok" THEN Raised("Permission denied")
    ELSE Returned(
        [title_text |-> TitleTexts(doc.title) \o TitleTexts(doc.subTitle),
         displayname_text |-> DisplayTexts(Projections(doc)),
         textbox_text |-> TextboxTexts(doc),
         missing_displayname |-> MissingTexts(Projections(doc))])

(***************************************************************************)
(* Corpus scanner                                                          *)
(*                                                                         *)
(* The file system holds one directory, "pages", whose visual.json files   *)
(* are fs[1], fs[2], ... in ascending path order; a file's relative path   *)
(* is its index.  Every other pages_dir names nothing that glob can        *)
(* descend into ("nonexistent": no such path, "afile": a regular file).    *)
(***************************************************************************)
PagesDirs == {"pages", "nonexistent", "afile"}

\* glob.glob(os.path.join(pages_dir, "**", "visual.json"), recursive=True)
Glob(fs, pages_dir) == IF pages_dir = "pages" THEN 1..Len(fs) ELSE {}

Min(S) == CHOOSE x \in S : \A y \in S : x <= y

\* sorted(paths)
RECURSIVE Sorted(_)
Sorted(S) == IF S = {} THEN <<>> ELSE <<Min(S)>> \o Sorted(S \ {Min(S)})

\* AnyValues looking at three of the four lists
AnyValuesWithoutMissing(result) ==
    \/ result.title_text # <<>>
    \/ result.displayname_text # <<>>
    \/ result.textbox_text # <<>>

\* any(result.values())
AnyValues(result) ==
    \/ result.title_text # <<>>
    \/ result.displayname_text # <<>>
    \/ result.textbox_text # <<>>
    \/ result.missing_displayname # <<>>

Finding(path, result) ==
    [file |-> path,
     title_text |-> result.title_text,
     displayname_text |-> result.displayname_text,
     textbox_text |-> result.textbox_text,
     missing_displayname |-> result.missing_displayname]

\* the loop of scan_all_visuals over the sorted paths
\* what one file adds to the findings list
Keep(findings, path, result) ==
    IF AnyValues(result) THEN Append(findings, Finding(path, result)) ELSE findings

RECURSIVE ScanLoop(_, _, _)
ScanLoop(fs, paths, findings) ==
    IF paths = <<>> THEN Returned(findings)
    ELSE Only({IF r.raised THEN Raised(r.exc)
               ELSE ScanLoop(fs, Tail(paths), Keep(findings, Head(paths), r.value)) :
               r \in {scan_visual_json(fs[Head(paths)])}})

scan_all_visuals(fs, pages_dir) == ScanLoop(fs, Sorted(Glob(fs, pages_dir)), <<>>)

RECURSIVE SumSeq(_)
SumSeq(ns) == IF ns = <<>> THEN 0 ELSE Head(ns) + SumSeq(Tail(ns))

(***************************************************************************)
(* Report formatters.  A report is a sequence of lines; a line is the      *)
(* template it is printed from (tag), its numbers (n, m) and its string    *)
(* (txt).                                                                  *)
(***************************************************************************)
Line(tag, n, m, txt) == [tag |-> tag, n |-> n, m |-> m, txt |-> txt]
Plain(tag) == Line(tag, 0, 0, <<>>)
Rule == Plain("==================================================")
Blank == Plain("")

RECURSIVE ItemLines(_, _)
ItemLines(tag, txts) ==
    IF txts = <<>> THEN <<>>
    ELSE <<Line(tag, 0, 0, Head(txts))>> \o ItemLines(tag, Tail(txts))

\* one category of one file: nothing when the category is empty
Section(tag, item, txts) ==
    IF txts = <<>> THEN <<>>
    ELSE <<Line(tag, Len(txts), 0, <<>>)>> \o ItemLines(item, txts)

RECURSIVE FindingLines(_)
FindingLines(findings) ==
    IF findings = <<>> THEN <<>>
    ELSE LET finding == Head(findings) IN
         <<Line("File: ", finding.file, 0, <<>>)>>
         \o Section("  Title text (n):", "    - 'txt'", finding.title_text)
         \o Section("  DisplayName (n):", "    - 'txt'", finding.displayname_text)
         \o Section("  Missing displayName (n):",
                    "    - 'txt' (nativeQueryRef without displayName override)",
                    finding.missing_displayname)
         \o Section("  Textbox content (n):", "    - 'txt'", finding.textbox_text)
         \o <<Blank>>
         \o FindingLines(Tail(findings))

IssueCount(f) ==
    Len(f.title_text) + Len(f.displayname_text)
    + Len(f.textbox_text) + Len(f.missing_displayname)

format_findings_as_text(findings) ==
    IF findings = <<>>
    THEN <<Plain("No suspected English content found. Translation appears complete!")>>
    ELSE LET total_issues == SumSeq([i \in 1..Len(findings) |-> IssueCount(findings[i])])
         IN  <<Plain("ENGLISH CONTENT AUDIT"), Rule, Blank,
               Line("Found n suspected English strings in m files",
                    total_issues, Len(findings), <<>>),
               Blank>>
             \o FindingLines(findings)

\* MissingOnlyBranch gated on the displayName key being absent
MissingOnlyBranchKeyGated(proj) == Truthy(proj.nativeQueryRef) /\ proj.displayName = Absent

\* if nqr and not dn (scan_missing_displaynames_only)
MissingOnlyBranch(proj) == Truthy(proj.nativeQueryRef) /\ ~Truthy(proj.displayName)

UnknownType == <<"u", "n", "k", "n", "o", "w", "n">>

RECURSIVE MissingEntries(_, _, _)
MissingEntries(path, visual_type, projs) ==
    IF projs = <<>> THEN <<>>
    ELSE LET proj == Head(projs) IN
         IF MissingOnlyBranch(proj)
         THEN <<[file |-> path,
                 nativeQueryRef |-> proj.nativeQueryRef,
                 visualType |-> visual_type,
                 suspected_english |-> is_suspected_english(proj.nativeQueryRef)]>>
              \o MissingEntries(path, visual_type, Tail(projs))
         ELSE MissingEntries(path, visual_type, Tail(projs))

\* the loop of scan_missing_displaynames_only over the sorted paths
RECURSIVE MissingLoop(_, _, _)
MissingLoop(fs, paths, findings) ==
    IF paths = <<>> THEN Returned(findings)
    ELSE LET doc == fs[Head(paths)] IN
         IF doc.kind \in CaughtKinds THEN MissingLoop(fs, Tail(paths), findings)
         ELSE IF doc.kind # "ok" THEN Raised("Permission denied")
         ELSE MissingLoop(fs, Tail(paths),
                  findings \o MissingEntries(
                      Head(paths),
                      IF doc.visualType = Absent THEN UnknownType ELSE doc.visualType,
                      Projections(doc)))

RECURSIVE GroupLines(_)
GroupLines(group) ==
    IF group = <<>> THEN <<>>
    ELSE LET f == Head(group) IN
         <<Line("  file", f.file, 0, <<>>),
           Line("    nativeQueryRef: 'txt'", 0, 0, f.nativeQueryRef),
           Line("    visualType: txt", 0, 0, f.visualType)>>
         \o GroupLines(Tail(group))

IsEnglishEntry(f) == f.suspected_english
IsOtherEntry(f) == ~f.suspected_english

MissingReport(findings) ==
    IF findings = <<>>
    THEN <<Plain("All projections have displayName overrides. Good!")>>
    ELSE LET english_group == SelectSeq(findings, IsEnglishEntry)
             other_group == SelectSeq(findings, IsOtherEntry)
         IN  <<Plain("MISSING DISPLAYNAME AUDIT"), Rule, Blank,
               Line("Found n projections without displayName", Len(findings), 0, <<>>),
               Blank>>
             \o (IF english_group = <<>> THEN <<>>
                 ELSE <<Line("SUSPECTED ENGLISH (n):", Len(english_group), 0, <<>>)>>
                      \o GroupLines(english_group) \o <<Blank>>)
             \o (IF other_group = <<>> THEN <<>>
                 ELSE <<Line("OTHER (not suspected English, n):", Len(other_group), 0, <<>>)>>
                      \o GroupLines(other_group) \o <<Blank>>)

scan_missing_displaynames_only(fs, pages_dir) ==
    Only({IF r.raised THEN r ELSE Returned(MissingReport(r.value)) :
          r \in {MissingLoop(fs, Sorted(Glob(fs, pages_dir)), <<>>)}})

\* if proj.get("nativeQueryRef")
CountsAsProjection(proj) == Truthy(proj.nativeQueryRef)

\* HasDisplayNameKey testing the value instead of the key
HasDisplayNameValue(proj) == Truthy(proj.displayName)

\* if "displayName" in proj
HasDisplayNameKey(proj) == proj.displayName # Absent

\* the second walk of validate_translation_coverage; its bare except skips
\* every file that does not open and parse
CountProjections(fs, paths) ==
    LET counted(p) == IF fs[p].kind = "ok"
                      THEN SelectSeq(Projections(fs[p]), CountsAsProjection)
                      ELSE <<>>
    IN  [total |-> SumSeq([i \in 1..Len(paths) |-> Len(counted(paths[i]))]),
         with_dn |-> SumSeq([i \in 1..Len(paths) |->
                               Len(SelectSeq(counted(paths[i]), HasDisplayNameKey))])]

\* f"{x:.1f}" of x = with_dn / total * 100, in tenths: round to nearest, ties to even
Fmt1f(with_dn, total) ==
    LET q == (1000 * with_dn) \div total
        r == (1000 * with_dn) % total
    IN  IF 2 * r > total THEN q + 1
        ELSE IF 2 * r = total THEN q + (q % 2)
        ELSE q

\* (projections_with_dn / total_projections * 100) if total_projections > 0 else 0
CoveragePct(with_dn, total) == IF total > 0 THEN Fmt1f(with_dn, total) ELSE 0

Pass == <<"P", "A", "S", "S">>
Fail == <<"F", "A", "I", "L">>

\* "PASS" if total_issues == 0 else "FAIL"
Verdict(total_issues) == IF total_issues = 0 THEN Pass ELSE Fail

\* TotalIssues leaving the missing-displayName count out
TotalIssuesWithoutMissing(total_title, total_displayname, total_textbox, total_missing) ==
    total_title + total_displayname + total_textbox

\* total_issues = total_title + total_displayname + total_textbox + total_missing
TotalIssues(total_title, total_displayname, total_textbox, total_missing) ==
    total_title + total_displayname + total_textbox + total_missing

CoverageReport(total_title, total_displayname, total_textbox, total_missing, total_projections, projections_with_dn) ==
    LET total_issues == TotalIssues(total_title, total_displayname, total_textbox, total_missing)
        verdict_ == Verdict(total_issues)
    IN  <<Plain("TRANSLATION COVERAGE VALIDATION"), Rule, Blank,
          Line("Total projections: n", total_projections, 0, <<>>),
          Line("Projections with displayName: n (m%)", projections_with_dn,
               CoveragePct(projections_with_dn, total_projections), <<>>),
          Line("Projections without displayName: n",
               total_projections - projections_with_dn, 0, <<>>),
          Blank,
          Plain("SUSPECTED ENGLISH CONTENT:"),
          Line("  Title text: n", total_title, 0, <<>>),
          Line("  DisplayName values: n", total_displayname, 0, <<>>),
          Line("  Missing displayName (English nativeQueryRef): n", total_missing, 0, <<>>),
          Line("  Textbox content: n", total_textbox, 0, <<>>),
          Blank,
          Line("Total suspected English strings: n", total_issues, 0, <<>>),
          Blank,
          Line("VERDICT: txt", 0, 0, verdict_),
          Blank,
          IF verdict_ = Fail
          THEN Plain("Translation incomplete. Run scan_english_remaining for details.")
          ELSE Plain("No suspected English content found. Translation appears complete!")>>

\* validate_translation_coverage once scan_all_visuals has returned `findings`
CoverageOf(fs, pages_dir, findings) ==
    Only({CoverageReport(
              SumSeq([i \in 1..Len(findings) |-> Len(findings[i].title_text)]),
              SumSeq([i \in 1..Len(findings) |-> Len(findings[i].displayname_text)]),
              SumSeq([i \in 1..Len(findings) |-> Len(findings[i].textbox_text)]),
              SumSeq([i \in 1..Len(findings) |-> Len(findings[i].missing_displayname)]),
              c.total, c.with_dn) :
          c \in {CountProjections(fs, Sorted(Glob(fs, pages_dir)))}})

validate_translation_coverage(fs, pages_dir) ==
    Only({IF scan.raised THEN scan ELSE Returned(CoverageOf(fs, pages_dir, scan.value)) :
          scan \in {scan_all_visuals(fs, pages_dir)}})

(***************************************************************************)
(* Dispatch                                                                *)
(*                                                                         *)
(* A request is its method, its id (NoId when the key is absent) and, for  *)
(* tools/call, the tool name, the pages_dir argument and which keys are    *)
(* there (shape): "ok", or no "params", no "name", no "arguments", or no   *)
(* "pages_dir" inside the arguments.                                       *)
(***************************************************************************)
NoId == "<no id>"
Ids == {"1", "2"}

ToolNames == {"scan_english_remaining", "scan_missing_displaynames",
              "validate_translation_coverage"}

Request(method, id, shape, name, pages_dir) ==
    [method |-> method, id |-> id, shape |-> shape, name |-> name, pages_dir |-> pages_dir]

Response(id, kind, code, message, txt) ==
    [id |-> id, kind |-> kind, code |-> code, message |-> message, text |-> txt]

\* the three operations as handle_tools_call runs them: the findings list of the
\* first one, and the text returned or the exception raised
RunTool(fs, name, pages_dir) ==
    IF name = "scan_english_remaining"
    THEN Only({[findings |-> r.value,
                out |-> IF r.raised THEN r ELSE Returned(format_findings_as_text(r.value))] :
               r \in {scan_all_visuals(fs, pages_dir)}})
    ELSE IF name = "scan_missing_displaynames"
    THEN [findings |-> <<>>, out |-> scan_missing_displaynames_only(fs, pages_dir)]
    ELSE [findings |-> <<>>, out |-> validate_translation_coverage(fs, pages_dir)]

\* the body of the try block: the response returned, or the exception raised in it
TryBody(fs, request) ==
    IF request.name \in ToolNames
    THEN IF request.shape = "no_pages_dir" THEN Raised("'pages_dir'")
         ELSE Only({IF r.raised THEN r
                    ELSE IF request.id = NoId THEN Raised("'id'")
                    ELSE Returned(Response(request.id, "content", 0, <<>>, r.value)) :
                    r \in {RunTool(fs, request.name, request.pages_dir).out}})
    ELSE IF request.id = NoId THEN Raised("'id'")
         ELSE Returned(Response(request.id, "error", -32601,
                                <<"Unknown tool: ", request.name>>, <<>>))

handle_tools_call(fs, request) ==
    IF request.shape = "no_params" THEN Raised("'params'")
    ELSE IF request.shape = "no_name" THEN Raised("'name'")
    ELSE IF request.shape = "no_arguments" THEN Raised("'arguments'")
    ELSE Only({IF ~r.raised THEN r
               ELSE IF request.id = NoId THEN Raised("'id'")
               ELSE Returned(Response(request.id, "error", -32603,
                                      <<"Tool execution error: ", r.exc>>, <<>>)) :
               r \in {TryBody(fs, request)}})

handle_initialize(request) ==
    IF request.id = NoId THEN Raised("'id'")
    ELSE Returned(Response(request.id, "initialize", 0, <<>>, <<>>))

handle_tools_list(request) ==
    IF request.id = NoId THEN Raised("'id'")
    ELSE Returned(Response(request.id, "tools", 0, <<>>, <<>>))

(***************************************************************************)
(* Inputs                                                                  *)
(***************************************************************************)
Revenue == <<"R", "e", "v", "e", "n", "u", "e">>
Forsaljning == <<"F", "ö", "r", "s", "ä", "l", "j", "n", "i", "n", "g">>
TotalRevenue == <<"T", "o", "t", "a", "l", " ", "R", "e", "v", "e", "n", "u", "e">>
QuotedTotalRevenue == <<"'">> \o TotalRevenue \o <<"'">>
CardType == <<"c", "a", "r", "d">>

EmptyDoc == Doc("ok", <<>>, <<>>, <<>>, Absent, <<>>)
TitleDoc(t) == Doc("ok", <<t>>, <<>>, <<>>, Absent, <<>>)
ProjDoc(buckets) == Doc("ok", <<>>, <<>>, buckets, Absent, <<>>)
BrokenDoc(kind) == Doc(kind, <<>>, <<>>, <<>>, Absent, <<>>)

DocPool ==
    { EmptyDoc,
      TitleDoc(QuotedTotalRevenue),
      Doc("ok", <<Absent>>, <<QuotedTotalRevenue, Forsaljning>>, <<>>, CardType, <<>>),
      Doc("ok", <<>>, <<>>, <<>>, TextboxType, << <<TotalRevenue, Forsaljning>>, <<Absent>> >>),
      Doc("ok", <<>>, <<>>, <<>>, CardType, << <<TotalRevenue>> >>),
      ProjDoc(<< <<Proj(Revenue, Absent)>> >>),
      ProjDoc(<< <<Proj(Forsaljning, Absent)>> >>),
      ProjDoc(<< <<Proj(Revenue, <<>>)>> >>),
      ProjDoc(<< <<Proj(Revenue, Forsaljning)>> >>),
      ProjDoc(<< <<Proj(Revenue, TotalRevenue)>> >>),
      ProjDoc(<< <<Proj(Absent, Revenue)>> >>),
      ProjDoc(<< <<Proj(Revenue, Absent)>>,
                 <<Proj(Revenue, Forsaljning), Proj(<<>>, Absent), Proj(Forsaljning, <<>>)>> >>),
      BrokenDoc("malformed"),
      BrokenDoc("undecodable"),
      BrokenDoc("missing"),
      BrokenDoc("unreadable") }

\* the directory trees of up to n files
Corpora(n) == UNION {[1..k -> DocPool] : k \in 0..n}

\* the directory trees the server loop is run on
ServerCorpora ==
    { <<>>,
      <<ProjDoc(<< <<Proj(Revenue, Absent)>> >>)>>,
      <<BrokenDoc("malformed"), TitleDoc(QuotedTotalRevenue)>>,
      <<BrokenDoc("unreadable"), TitleDoc(QuotedTotalRevenue)>> }

Frags ==
    { <<"t", "o", "t", "a", "l">>, <<"C", "o", "s", "t">>, <<"7">>,
      <<" ">>, <<"'">>, <<"\"">>, <<"#">>, <<"r", "g", "b">>, <<"ä">>,
      <<"C", "o", "l", "o", "r">>, <<"F", "C">>, <<"t", "r", "u", "e">> }

\* the strings made of up to n fragments
RECURSIVE Texts(_)
Texts(n) ==
    IF n = 0 THEN {<<>>}
    ELSE Texts(n - 1) \cup {t \o f : t \in Texts(n - 1), f \in Frags}

Requests ==
    {Request(m, id, "ok", "", "") :
        m \in {"initialize", "initialized", "tools/list", "ping"}, id \in Ids \cup {NoId}}
    \cup {Request("tools/call", id, "ok", name, dir) :
            id \in Ids \cup {NoId}, name \in ToolNames \cup {"bogus"},
            dir \in {"pages", "nonexistent"}}
    \cup {Request("tools/call", id, "no_pages_dir", name, "") :
            id \in Ids \cup {NoId}, name \in ToolNames \cup {"bogus"}}
    \cup {Request("tools/call", id, shape, "bogus", "") :
            id \in Ids \cup {NoId}, shape \in {"no_params", "no_name", "no_arguments"}}

(***************************************************************************)
(* The server loop: main()                                                 *)
(***************************************************************************)
NoRequest == Request("", NoId, "ok", "", "")
NoResponse == Response(NoId, "none", 0, <<>>, <<>>)
NoCall == [name |-> "", pages_dir |-> "", findings |-> <<>>, out |-> Returned(<<>>)]

TextIdle ==
    /\ text = <<>>
    /\ phase = "idle"
    /\ verdict = FALSE
    /\ results = EmptyResults

Init ==
    /\ files \in ServerCorpora
    /\ pc = "running"
    /\ inlog = <<>>
    /\ outbox = <<>>
    /\ stderr = <<>>
    /\ last = [req |-> NoRequest, resp |-> NoResponse]
    /\ call = NoCall
    /\ prior = NoCall
    /\ TextIdle

\* one iteration that read `request` and got `r` from its handler: the response is
\* sent, or the exception reaches the except clause of the loop, which logs and breaks
Iteration(request, r) ==
    /\ inlog' = Append(inlog, <<request.method, request.id>>)
    /\ IF r.raised
       THEN /\ pc' = "stopped"
            /\ stderr' = Append(stderr, <<"Server error: ", r.exc>>)
            /\ outbox' = outbox
            /\ last' = [req |-> request, resp |-> NoResponse]
       ELSE /\ pc' = pc
            /\ stderr' = stderr
            /\ outbox' = IF r.value = NoResponse THEN outbox ELSE Append(outbox, r.value.id)
            /\ last' = [req |-> request, resp |-> r.value]
    /\ UNCHANGED <<files, call, prior, text, phase, verdict, results>>

CanRead == pc = "running" /\ Len(inlog) < MaxRequests

Initialize ==
    \E request \in Requests :
        /\ CanRead
        /\ request.method = "initialize"
        /\ Iteration(request, handle_initialize(request))

Initialized ==
    \E request \in Requests :
        /\ CanRead
        /\ request.method = "initialized"
        /\ Iteration(request, Returned(NoResponse))

ToolsList ==
    \E request \in Requests :
        /\ CanRead
        /\ request.method = "tools/list"
        /\ Iteration(request, handle_tools_list(request))

ToolsCall ==
    \E request \in Requests :
        /\ CanRead
        /\ request.method = "tools/call"
        /\ \E r \in {handle_tools_call(files, request)} : Iteration(request, r)

UnknownMethod ==
    \E request \in Requests :
        /\ CanRead
        /\ request.method \notin {"initialize", "initialized", "tools/list", "tools/call"}
        /\ Iteration(request,
               IF request.id = NoId THEN Returned(NoResponse)
               ELSE Returned(Response(request.id, "error", -32601,
                                      <<"Method not found: ", request.method>>, <<>>)))

\* read_message raises EOFError: the loop breaks silently
EndOfInput ==
    /\ pc = "running"
    /\ pc' = "stopped"
    /\ UNCHANGED <<files, inlog, outbox, stderr, last, call, prior, text, phase, verdict, results>>

\* read_message raises on a frame that is not JSON: logged, and the loop breaks
BadFrame ==
    /\ pc = "running"
    /\ pc' = "stopped"
    /\ stderr' = Append(stderr, <<"Server error: ", "Expecting value">>)
    /\ UNCHANGED <<files, inlog, outbox, last, call, prior, text, phase, verdict, results>>

Next ==
    \/ Initialize
    \/ Initialized
    \/ ToolsList
    \/ ToolsCall
    \/ UnknownMethod
    \/ EndOfInput
    \/ BadFrame

Spec == Init /\ [][Next]_vars

(***************************************************************************)
(* The three operations on a directory tree                                *)
(***************************************************************************)
ServerIdle ==
    /\ pc = "stopped"
    /\ inlog = <<>>
    /\ outbox = <<>>
    /\ stderr = <<>>
    /\ last = [req |-> NoRequest, resp |-> NoResponse]

InitScan ==
    /\ files \in Corpora(MaxFiles)
    /\ call = NoCall
    /\ prior = NoCall
    /\ ServerIdle
    /\ TextIdle

CallTool(name, pages_dir) ==
    /\ \E r \in {RunTool(files, name, pages_dir)} :
           call' = [name |-> name, pages_dir |-> pages_dir,
                    findings |-> r.findings, out |-> r.out]
    /\ UNCHANGED <<files, pc, inlog, outbox, stderr, last, prior, text, phase, verdict, results>>

ScanEnglishRemaining ==
    \E dir \in PagesDirs :
        /\ call = NoCall
        /\ CallTool("scan_english_remaining", dir)

ScanMissingDisplaynames ==
    \E dir \in PagesDirs :
        /\ call = NoCall
        /\ CallTool("scan_missing_displaynames", dir)

ValidateTranslationCoverage ==
    \E dir \in PagesDirs :
        /\ call = NoCall
        /\ CallTool("validate_translation_coverage", dir)

NextScan ==
    \/ ScanEnglishRemaining
    \/ ScanMissingDisplaynames
    \/ ValidateTranslationCoverage

SpecScan == InitScan /\ [][NextScan]_vars

(***************************************************************************)
(* Two operations, one after the other, on the same unchanged tree: the    *)
(* missing-displayName report, then the coverage validation or the full    *)
(* scan.                                                                   *)
(***************************************************************************)
ThenTool(name) ==
    /\ call.name = "scan_missing_displaynames"
    /\ prior = NoCall
    /\ prior' = call
    /\ \E r \in {RunTool(files, name, call.pages_dir)} :
           call' = [name |-> name, pages_dir |-> call.pages_dir,
                    findings |-> r.findings, out |-> r.out]
    /\ UNCHANGED <<files, pc, inlog, outbox, stderr, last, text, phase, verdict, results>>

ThenValidateTranslationCoverage ==
    /\ call # NoCall
    /\ ThenTool("validate_translation_coverage")

ThenScanEnglishRemaining ==
    /\ call # NoCall
    /\ ThenTool("scan_english_remaining")

NextPair ==
    \/ ScanMissingDisplaynames
    \/ ThenValidateTranslationCoverage
    \/ ThenScanEnglishRemaining

SpecPair == InitScan /\ [][NextPair]_vars

(***************************************************************************)
(* The classifier and the title extractor on one string                    *)
(***************************************************************************)
InitText ==
    /\ text \in Texts(MaxFrags)
    /\ phase = "input"
    /\ verdict = FALSE
    /\ results = EmptyResults
    /\ files = <<>>
    /\ call = NoCall
    /\ prior = NoCall
    /\ ServerIdle

Classify ==
    /\ phase = "input"
    /\ phase' = "classified"
    /\ verdict' = is_suspected_english(text)
    /\ UNCHANGED <<files, pc, inlog, outbox, stderr, last, call, prior, text, results>>

ScanTitle ==
    /\ phase = "input"
    /\ phase' = "scanned"
    /\ results' = scan_visual_json(TitleDoc(text)).value
    /\ UNCHANGED <<files, pc, inlog, outbox, stderr, last, call, prior, text, verdict>>

NextText == Classify \/ ScanTitle

SpecText == InitText /\ [][NextText]_vars

(***************************************************************************)
(* Properties                                                              *)
(***************************************************************************)
HasLine(report, tag) == \E i \in 1..Len(report) : report[i].tag = tag
LineWith(report, tag) == report[CHOOSE i \in 1..Len(report) : report[i].tag = tag]

\* the tool `name` was run on its own and returned a report
Reported(name) == call.name = name /\ ~call.out.raised

\* the files glob lists for the call's pages_dir
Listed == IF call.pages_dir = "pages" THEN 1..Len(files) ELSE {}

\* the files among them that open and parse
Parsed == {i \in Listed : files[i].kind = "ok"}

\* the positions <<file, bucket, projection>> of the projections of the parsed files
ProjectionsAt ==
    UNION {UNION {{<<i, b, k>> : k \in 1..Len(files[i].queryState[b])} :
                  b \in 1..Len(files[i].queryState)} : i \in Parsed}

ProjectionAt(pos) == files[pos[1]].queryState[pos[2]][pos[3]]

\* what the extractor finds in file i
Extracted(i) == scan_visual_json(files[i]).value

\* C1: the coverage report says VERDICT: PASS exactly when the title, displayName,
\* missing-displayName and textbox counts, summed over all files, come to 0, and
\* VERDICT: FAIL otherwise; the four counts it prints are those sums.
C1_VerdictPassIffNoIssues ==
    Reported("validate_translation_coverage") =>
        LET report == call.out.value
            titles == SumSeq([i \in 1..Len(files) |->
                        IF i \in Listed THEN Len(Extracted(i).title_text) ELSE 0])
            names == SumSeq([i \in 1..Len(files) |->
                        IF i \in Listed THEN Len(Extracted(i).displayname_text) ELSE 0])
            missing == SumSeq([i \in 1..Len(files) |->
                        IF i \in Listed THEN Len(Extracted(i).missing_displayname) ELSE 0])
            boxes == SumSeq([i \in 1..Len(files) |->
                        IF i \in Listed THEN Len(Extracted(i).textbox_text) ELSE 0])
            verdict_ == LineWith(report, "VERDICT: txt").txt
        IN  /\ LineWith(report, "  Title text: n").n = titles
            /\ LineWith(report, "  DisplayName values: n").n = names
            /\ LineWith(report, "  Missing displayName (English nativeQueryRef): n").n = missing
            /\ LineWith(report, "  Textbox content: n").n = boxes
            /\ verdict_ = Pass <=> titles + names + missing + boxes = 0
            /\ verdict_ # Pass => verdict_ = Fail

\* C1 witness: a report over two files whose only findings are missing displayNames
C1_Witness ==
    /\ Reported("validate_translation_coverage")
    /\ Len(files) = 2
    /\ call.pages_dir = "pages"
    /\ LineWith(call.out.value, "VERDICT: txt").txt = Fail
    /\ LineWith(call.out.value, "  Missing displayName (English nativeQueryRef): n").n = 2
    /\ LineWith(call.out.value, "Total suspected English strings: n").n = 2

\* C6: scan_all_visuals returns a finding for a file exactly when one of the file's
\* four extracted sequences is non-empty; every finding returned carries the file's
\* four sequences, at least one of them non-empty, and the findings are in path order.
C6_IncludedIffNonEmpty ==
    Reported("scan_english_remaining") =>
        LET findings == call.findings IN
        /\ \A i \in Listed :
              (\E k \in 1..Len(findings) : findings[k].file = i)
                  <=> (\/ Len(Extracted(i).title_text) > 0
                       \/ Len(Extracted(i).displayname_text) > 0
                       \/ Len(Extracted(i).textbox_text) > 0
                       \/ Len(Extracted(i).missing_displayname) > 0)
        /\ \A k \in 1..Len(findings) :
              /\ findings[k].file \in Listed
              /\ findings[k] = Finding(findings[k].file, Extracted(findings[k].file))
              /\ Len(findings[k].title_text) + Len(findings[k].displayname_text)
                 + Len(findings[k].textbox_text) + Len(findings[k].missing_displayname) > 0
        /\ \A k \in 1..(Len(findings) - 1) : findings[k].file < findings[k + 1].file

\* C6 witness: of two files, the one with nothing to report is left out and the one
\* whose only finding is a missing displayName is kept
C6_Witness ==
    /\ Reported("scan_english_remaining")
    /\ Len(files) = 2
    /\ Len(call.findings) = 1
    /\ call.findings[1].file = 2
    /\ call.findings[1].title_text = <<>>
    /\ call.findings[1].missing_displayname # <<>>

\* C7: in the coverage report, total projections is the number of projections with
\* a non-empty nativeQueryRef in the files that parse, projections-with-displayName
\* is the number of those that carry a displayName key (an empty value counts), and
\* the percentage is 0 when the total is 0 and otherwise 100 * with / total to one
\* decimal; so with <= total and the percentage lies between 0 and 100.
C7_CoverageCounts ==
    Reported("validate_translation_coverage") =>
        LET report == call.out.value
            counted == {pos \in ProjectionsAt :
                          /\ ProjectionAt(pos).nativeQueryRef # Absent
                          /\ ProjectionAt(pos).nativeQueryRef # <<>>}
            covered == {pos \in counted : ProjectionAt(pos).displayName # Absent}
            total == LineWith(report, "Total projections: n").n
            with_dn == LineWith(report, "Projections with displayName: n (m%)").n
            tenths == LineWith(report, "Projections with displayName: n (m%)").m
        IN  /\ total = Cardinality(counted)
            /\ with_dn = Cardinality(covered)
            /\ LineWith(report, "Projections without displayName: n").n = total - with_dn
            /\ with_dn <= total
            /\ total = 0 => tenths = 0
            /\ total > 0 => /\ 2 * (tenths * total - 1000 * with_dn) <= total
                            /\ 2 * (1000 * with_dn - tenths * total) <= total
            /\ 0 <= tenths /\ tenths <= 1000

\* C7 witness: some but not all projections are covered, one of them by an empty
\* displayName
C7_Witness ==
    /\ Reported("validate_translation_coverage")
    /\ LineWith(call.out.value, "Total projections: n").n >= 3
    /\ LineWith(call.out.value, "Projections with displayName: n (m%)").n
         < LineWith(call.out.value, "Total projections: n").n
    /\ LineWith(call.out.value, "Projections with displayName: n (m%)").m \in 1..999
    /\ \E pos \in ProjectionsAt :
          /\ Truthy(ProjectionAt(pos).nativeQueryRef)
          /\ ProjectionAt(pos).displayName = <<>>

\* the nativeQueryRef values, in document order, of the projections of `doc` that pass
RefsWhere(doc, Test(_)) ==
    LET picked == SelectSeq(Projections(doc), Test)
    IN  [k \in 1..Len(picked) |-> picked[k].nativeQueryRef]

\* a projection with a non-empty nativeQueryRef and no displayName key
KeyAbsent(proj) == Truthy(proj.nativeQueryRef) /\ proj.displayName = Absent

\* a projection with a non-empty nativeQueryRef whose displayName key is there, empty
KeyEmpty(proj) == Truthy(proj.nativeQueryRef) /\ proj.displayName = <<>>

KeyAbsentEnglish(proj) == KeyAbsent(proj) /\ is_suspected_english(proj.nativeQueryRef)

KeyAbsentOrEmpty(proj) == KeyAbsent(proj) \/ KeyEmpty(proj)

KeyAbsentOrEmptyEnglish(proj) ==
    KeyAbsentOrEmpty(proj) /\ is_suspected_english(proj.nativeQueryRef)

\* the number of projections without displayName the missing-displayName report gives
ReportedMissing ==
    IF HasLine(call.out.value, "Found n projections without displayName")
    THEN LineWith(call.out.value, "Found n projections without displayName").n
    ELSE 0

\* C4 as stated: the missing-displayname rule is gated on the displayName key being
\* absent, so a projection whose displayName is present and empty adds nothing: a
\* file's missing_displayname sequence holds the suspected-English nativeQueryRefs of
\* the projections without the key, and the missing-displayName report counts the
\* projections without the key.
C4_KeyPresenceGated ==
    /\ Reported("scan_english_remaining") =>
          \A i \in Parsed : Extracted(i).missing_displayname = RefsWhere(files[i], KeyAbsentEnglish)
    /\ Reported("scan_missing_displaynames") =>
          ReportedMissing = SumSeq([i \in 1..Len(files) |->
              IF i \in Parsed THEN Len(RefsWhere(files[i], KeyAbsent)) ELSE 0])

\* C4 amended: the rule is gated on the displayName value being empty or absent: a
\* file's missing_displayname sequence holds, in document order, the
\* suspected-English nativeQueryRefs of the projections whose displayName is absent
\* or the empty string, a projection with an empty displayName included; the
\* missing-displayName report counts those projections.
C4_TruthinessGated ==
    /\ Reported("scan_english_remaining") =>
          /\ \A i \in Parsed :
                Extracted(i).missing_displayname = RefsWhere(files[i], KeyAbsentOrEmptyEnglish)
          /\ \A k \in 1..Len(call.findings) :
                call.findings[k].missing_displayname
                    = RefsWhere(files[call.findings[k].file], KeyAbsentOrEmptyEnglish)
    /\ Reported("scan_missing_displaynames") =>
          ReportedMissing = SumSeq([i \in 1..Len(files) |->
              IF i \in Parsed THEN Len(RefsWhere(files[i], KeyAbsentOrEmpty)) ELSE 0])

\* C4 witness: a file whose only projection has a suspected-English nativeQueryRef and
\* an empty displayName is reported with that nativeQueryRef as missing
C4_Witness ==
    /\ Reported("scan_english_remaining")
    /\ \E k \in 1..Len(call.findings) :
          /\ Len(Projections(files[call.findings[k].file])) = 1
          /\ KeyEmpty(Projections(files[call.findings[k].file])[1])
          /\ call.findings[k].missing_displayname
               = <<Projections(files[call.findings[k].file])[1].nativeQueryRef>>

\* the directory tree with every file that does not open and parse replaced by a
\* document without findings
WithoutFailingFiles ==
    [i \in 1..Len(files) |-> IF files[i].kind = "ok" THEN files[i] ELSE EmptyDoc]

\* C3: when some files cannot be read or parsed, each operation still returns, and
\* returns what it returns on the same tree with those files contributing nothing.
C3_FailingFilesIsolated ==
    call # NoCall =>
        /\ ~call.out.raised
        /\ call.out = RunTool(WithoutFailingFiles, call.name, call.pages_dir).out

\* C2: an operation called with a pages_dir that does not exist or is not a directory
\* ends in an execution error, never in a text result.
C2_InvalidDirectoryFails ==
    (/\ last.req.method = "tools/call"
     /\ last.req.shape = "ok"
     /\ last.req.id # NoId
     /\ last.req.name \in ToolNames
     /\ last.req.pages_dir # "pages")
    => /\ last.resp.kind = "error"
       /\ last.resp.code = -32603

\* C8: every tools/call request that carries an id ends in exactly one of: a text
\* result (the tool is one of the three and returned), an execution error -32603
\* "Tool execution error: ..." (the tool is one of the three and raised), an
\* unknown-tool error -32601 (the name is not one of the three).
C8_ThreeOutcomes ==
    (last.req.method = "tools/call" /\ last.req.id # NoId) =>
        /\ last.resp.id = last.req.id
        /\ IF last.req.name \in ToolNames
           THEN \/ last.resp.kind = "content"
                \/ /\ last.resp.kind = "error"
                   /\ last.resp.code = -32603
                   /\ last.resp.message[1] = "Tool execution error: "
           ELSE /\ last.resp.kind = "error"
                /\ last.resp.code = -32601

\* the ids of the logged requests that are owed a response
RECURSIVE OwedIds(_)
OwedIds(log) ==
    IF log = <<>> THEN <<>>
    ELSE IF Head(log)[2] # NoId /\ Head(log)[1] # "initialized"
         THEN <<Head(log)[2]>> \o OwedIds(Tail(log))
         ELSE OwedIds(Tail(log))

\* C9: after each request read, the responses sent so far are exactly one per request
\* read that carries an id (initialize, tools/list, tools/call, unknown method), with
\* that request's id, in request order; "initialized" and id-less unknown methods get
\* none.
C9_OneResponsePerRequestInOrder == outbox = OwedIds(inlog)

\* s[a..b] is a word token of s: a maximal run of word characters
IsToken(s, a, b) ==
    /\ 1 <= a /\ a <= b /\ b <= Len(s)
    /\ \A i \in a..b : IsWordChar(s[i])
    /\ a = 1 \/ ~IsWordChar(s[a - 1])
    /\ b = Len(s) \/ ~IsWordChar(s[b + 1])

\* s has two or more word tokens: two word characters with something else between
TwoOrMoreTokens(s) ==
    \E i, j, k \in 1..Len(s) :
        i < j /\ j < k /\ IsWordChar(s[i]) /\ ~IsWordChar(s[j]) /\ IsWordChar(s[k])

\* one of the tokens of s is in the English-keyword dictionary
HasKeywordToken(s) ==
    \E a, b \in 1..Len(s) : IsToken(s, a, b) /\ SubSeq(s, a, b) \in ENGLISH_KEYWORDS

NoSwedishLetter(s) == \A i \in 1..Len(s) : s[i] \notin SWEDISH_CHARS

\* C5 as stated: a string of two or more tokens, one of them a dictionary keyword,
\* and no Swedish letter is classified as suspected English.
C5_KeywordPhraseAccepted ==
    (/\ phase = "classified"
     /\ TwoOrMoreTokens(Lower(text))
     /\ HasKeywordToken(Lower(text))
     /\ NoSwedishLetter(text))
    => verdict

\* C5 amended: such a string is classified as suspected English provided that,
\* once trimmed of whitespace and surrounding quotes, it does not start with "#" or
\* "rgb" and contains none of the internal-identifier substrings.
C5_KeywordPhraseAcceptedUnlessSkipped ==
    (/\ phase = "classified"
     /\ TwoOrMoreTokens(Lower(text))
     /\ HasKeywordToken(Lower(text))
     /\ NoSwedishLetter(text)
     /\ ~StartsWith(TextStripped(text), <<"#">>)
     /\ ~StartsWith(TextStripped(text), <<"r", "g", "b">>)
     /\ \A x \in InternalNames : ~Contains(TextStripped(text), x))
    => verdict

\* C5 witness: a phrase of a capitalised dictionary word and a word that is not in
\* the dictionary was accepted
C5_Witness ==
    /\ phase = "classified"
    /\ verdict
    /\ text # Lower(text)
    /\ TwoOrMoreTokens(Lower(text))
    /\ HasKeywordToken(Lower(text))
    /\ \E a, b \in 1..Len(text) :
          IsToken(Lower(text), a, b) /\ SubSeq(Lower(text), a, b) \notin ENGLISH_KEYWORDS

\* s with one quote character, single or double, taken off each end that has one
OneLayerOff(s) ==
    LET a == IF s # <<>> /\ s[1] \in QuoteChars THEN 2 ELSE 1
        b == IF Len(s) >= a /\ s[Len(s)] \in QuoteChars THEN Len(s) - 1 ELSE Len(s)
    IN  SubSeq(s, a, b)

\* the number of single quotes s begins with
LeadingSingleQuotes(s) ==
    CHOOSE a \in 0..Len(s) :
        /\ \A i \in 1..a : s[i] = "'"
        /\ a = Len(s) \/ s[a + 1] # "'"

\* the number of single quotes s ends with
TrailingSingleQuotes(s) ==
    CHOOSE b \in 0..Len(s) :
        /\ \A i \in (Len(s) - b + 1)..Len(s) : s[i] = "'"
        /\ b = Len(s) \/ s[Len(s) - b] # "'"

\* s without its leading and trailing single quotes
SingleQuoteTrim(s) ==
    IF LeadingSingleQuotes(s) = Len(s) THEN <<>>
    ELSE SubSeq(s, LeadingSingleQuotes(s) + 1, Len(s) - TrailingSingleQuotes(s))

\* C10 as stated: the text appended to the title sequence is the literal with one
\* layer of surrounding quote characters, single or double, removed, and nothing more.
C10_OneQuoteLayerRemoved ==
    (phase = "scanned" /\ results.title_text # <<>>)
    => results.title_text = <<OneLayerOff(text)>>

\* C10 amended: the extractor removes every leading and trailing single quote of the
\* literal, and no double quote; it classifies that text, and that text is what it
\* appends to the title sequence when the literal is non-empty and the text is
\* suspected English.
C10_SingleQuotesStripped ==
    phase = "scanned" =>
        /\ Len(results.title_text) <= 1
        /\ results.displayname_text = <<>>
        /\ results.textbox_text = <<>>
        /\ results.missing_displayname = <<>>
        /\ \A k \in 1..Len(results.title_text) : results.title_text[k] = SingleQuoteTrim(text)
        /\ results.title_text # <<>>
              <=> (text # <<>> /\ is_suspected_english(SingleQuoteTrim(text)))

\* C10 witness: a literal opening with two single quotes was appended without them
C10_Witness ==
    /\ phase = "scanned"
    /\ Len(text) >= 3
    /\ text[1] = "'" /\ text[2] = "'"
    /\ results.title_text # <<>>
    /\ results.title_text[1] = SubSeq(text, 3, Len(text))

\* the position of the line `tag` in a report that has it
LineAt(report, tag) == CHOOSE i \in 1..Len(report) : report[i].tag = tag

\* the <<file, nativeQueryRef>> entries of the SUSPECTED ENGLISH group of a
\* missing-displayName report, in the order printed
EnglishGroup(report) ==
    IF ~HasLine(report, "SUSPECTED ENGLISH (n):") THEN <<>>
    ELSE LET at == LineAt(report, "SUSPECTED ENGLISH (n):")
         IN  [k \in 1..report[at].n |->
                <<report[at + 3 * k - 2].n, report[at + 3 * k - 1].txt>>]

\* the <<file, nativeQueryRef>> entries of the missing_displayname sequences of a
\* findings list, in list order
RECURSIVE MissingOfFindings(_)
MissingOfFindings(findings) ==
    IF findings = <<>> THEN <<>>
    ELSE [k \in 1..Len(Head(findings).missing_displayname) |->
            <<Head(findings).file, Head(findings).missing_displayname[k]>>]
         \o MissingOfFindings(Tail(findings))

\* the two reports are there: the missing-displayName report, then `name`
BothReported(name) ==
    /\ prior.name = "scan_missing_displaynames"
    /\ ~prior.out.raised
    /\ Reported(name)

\* C11: when both operations succeed on a directory tree, the SUSPECTED ENGLISH group
\* of the missing-displayName report has as many entries as the coverage report's
\* "Missing displayName (English nativeQueryRef)" count, and its entries are the
\* missing_displayname entries of the scan findings, file by file in the same order.
C11_EnglishGroupMatchesMissingCount ==
    /\ BothReported("validate_translation_coverage") =>
          Len(EnglishGroup(prior.out.value))
             = LineWith(call.out.value, "  Missing displayName (English nativeQueryRef): n").n
    /\ BothReported("scan_english_remaining") =>
          EnglishGroup(prior.out.value) = MissingOfFindings(call.findings)

\* C11 witness: two files each add an entry to the SUSPECTED ENGLISH group, the report
\* has an OTHER group too, and the coverage report counts the same two
C11_Witness ==
    /\ BothReported("validate_translation_coverage")
    /\ Len(EnglishGroup(prior.out.value)) = 2
    /\ EnglishGroup(prior.out.value)[1][1] # EnglishGroup(prior.out.value)[2][1]
    /\ HasLine(prior.out.value, "OTHER (not suspected English, n):")
    /\ LineWith(call.out.value, "  Missing displayName (English nativeQueryRef): n").n = 2

====
